---------------------------- MODULE Spec2Model ----------------------------
(***************************************************************************)
(* Model of the scoring / classification / alerting engine of             *)
(* portfolio-daily-email:                                                  *)
(*   src/portfolio_allocator.py  (panic score, growth score, classify,     *)
(*                                the run of main over the universe)       *)
(*   src/portfolio_mailer.py     (streaks, trend, drawdown/run-up, alerts, *)
(*                                the run of main over the holdings)       *)
(*                                                                         *)
(* Representation of Python values                                         *)
(*   - a close is a record [nan, v]: v an integer price, nan the pandas    *)
(*     NaN that dropna() removes;                                          *)
(*   - a float percentage is an exact rational [n, d] with d > 0;          *)
(*   - a value of the info dict is [t, v, s]: t = "none" (absent / None),  *)
(*     t = "nan", t = "num" with v the value in hundredths (0.15 is        *)
(*     v = 15, a debt-to-equity of 100 is v = 10000), or t = "str" with    *)
(*     s the string;                                                       *)
(*   - strings are TLA+ strings; the emoji prefix of the action labels     *)
(*     and the en dash of the allocation ranges are written in ASCII.      *)
(***************************************************************************)
EXTENDS Integers, Sequences, FiniteSets, TLC

VARIABLES
    pc,                 \* position of the modelled run
    PANIC_STREAK_DAYS,  \* allocator configuration (environment)
    ALERT_STREAK_DAYS,  \* mailer configuration (environment)
    ALERT_DRAWDOWN_PCT,
    ALERT_RUNUP_PCT,
    DRAWDOWN_LOOKBACK,
    closes,             \* hist["Close"] of the symbol being handled
    sym, info,          \* the universe symbol and the Yahoo info of its ticker
    f, etf,             \* get_fundamentals(yahoo) and is_etf_like(sym, f)
    p_score, streak, dd,\* result of score_panic: score, streak, round(dd, 2) in hundredths
    up, down,           \* result of the mailer's compute_streak
    g_score,            \* result of score_growth
    action, alloc,      \* result of classify
    up_s, down_s, trend,\* the mailer's indicators of the symbol (main's locals)
    dd_pct, ru_pct,
    alert_msgs,
    symbols,            \* the symbols a run loops over (universe / holdings)
    handled,            \* number of symbols whose loop body has finished
    yahoo,              \* allocator main: the resolved ticker, "" for None
    rows, unresolved,   \* the rows and the unresolved list built by a run
    alerts_view,        \* build_email: the sorted alert table
    sent                \* the emails handed to SMTP, in order

cfgVars == <<PANIC_STREAK_DAYS, ALERT_STREAK_DAYS, ALERT_DRAWDOWN_PCT,
             ALERT_RUNUP_PCT, DRAWDOWN_LOOKBACK>>

panicVars == <<p_score, streak, dd>>

mailVars == <<up_s, down_s, trend, dd_pct, ru_pct, alert_msgs>>

fundVars == <<sym, info, f, etf>>

runVars == <<symbols, handled, yahoo, rows, unresolved, alerts_view, sent>>

vars == <<pc, cfgVars, closes, fundVars, panicVars, up, down, g_score, action,
          alloc, mailVars, runVars>>

-----------------------------------------------------------------------------
(* Bounds of the checked input spaces *)

MaxScore == 7          \* classify is applied to every pair in 0..MaxScore
MaxLen == 3            \* every close sequence up to this length is an input
MaxThreshold == 8      \* PANIC_STREAK_DAYS ranges over 1..MaxThreshold

-----------------------------------------------------------------------------
(* Arithmetic helpers *)

Abs(x) == IF x < 0 THEN -x ELSE x

Max2(a, b) == IF a >= b THEN a ELSE b

\* An exact rational n/d, kept with a positive denominator.
Rat(n, d) == IF d < 0 THEN [n |-> 0 - n, d |-> 0 - d] ELSE [n |-> n, d |-> d]

Zero == Rat(0, 1)

\* r >= k and r <= k for a rational r and an integer k
RatGe(r, k) == r.n >= k * r.d
RatLe(r, k) == r.n <= k * r.d

\* Round n/d (d > 0) to the nearest integer, ties to even: Python's round()
\* and its ".Nf" formatting on a value that is exactly representable.
RoundHalfEven(n, d) ==
    LET q == n \div d
        r == n % d
    IN  IF 2 * r < d THEN q
        ELSE IF 2 * r > d THEN q + 1
        ELSE IF q % 2 = 0 THEN q ELSE q + 1

\* round(x, 2) of a rational, in hundredths
Round2(r) == RoundHalfEven(r.n * 100, r.d)

-----------------------------------------------------------------------------
(* Close series *)

Px(v) == [nan |-> FALSE, v |-> v]
NaNClose == [nan |-> TRUE, v |-> 0]

\* Series.dropna(): the non-NaN closes, as integers, in order
RECURSIVE dropna(_)
dropna(s) ==
    IF s = <<>> THEN <<>>
    ELSE IF Head(s).nan THEN dropna(Tail(s))
         ELSE <<Head(s).v>> \o dropna(Tail(s))

RECURSIVE SeqMax(_)
SeqMax(c) == IF Len(c) = 1 THEN c[1] ELSE Max2(c[1], SeqMax(Tail(c)))

RECURSIVE SeqMin(_)
SeqMin(c) == IF Len(c) = 1 THEN c[1]
             ELSE LET m == SeqMin(Tail(c)) IN IF c[1] <= m THEN c[1] ELSE m

-----------------------------------------------------------------------------
(* portfolio_allocator.py: indicators and scores *)

\* compute_down_streak with the loop ending one step early
RECURSIVE DownScanShort(_, _)
DownScanShort(c, i) ==
    IF i < 3 THEN 0
    ELSE IF c[i] < c[i - 1] THEN 1 + DownScanShort(c, i - 1)
         ELSE 0

\* The loop of compute_down_streak from index i (1-based) backwards.
RECURSIVE DownScan(_, _)
DownScan(c, i) ==
    IF i < 2 THEN 0
    ELSE IF c[i] < c[i - 1] THEN 1 + DownScan(c, i - 1)
         ELSE 0

compute_down_streak(s) ==
    LET c == dropna(s)
    IN  IF Len(c) < 2 THEN 0 ELSE DownScan(c, Len(c))

\* compute_drawdown_pct with the sign of the mailer: (last - peak) / peak
compute_drawdown_pct_signed(s) ==
    LET c == dropna(s)
    IN  IF c = <<>> THEN Zero
        ELSE LET peak == SeqMax(c)
                 last == c[Len(c)]
             IN  IF peak <= 0 THEN Zero
                 ELSE Rat((last - peak) * 100, peak)

\* The fall from the peak as a non-negative percentage.
compute_drawdown_pct(s) ==
    LET c == dropna(s)
    IN  IF c = <<>> THEN Zero
        ELSE LET peak == SeqMax(c)
                 last == c[Len(c)]
             IN  IF peak <= 0 THEN Zero
                 ELSE Rat((peak - last) * 100, peak)

\* the streak part with the exact half of the threshold, days / 2
StreakPointsExactHalf(st, days) ==
    IF st >= days THEN 2
    ELSE IF 2 * st >= Max2(6, days) THEN 1
    ELSE 0

\* streak part of score_panic (lines 232-235); // is floor division
StreakPoints(st, days) ==
    IF st >= days THEN 2
    ELSE IF st >= Max2(3, days \div 2) THEN 1
    ELSE 0

\* drawdown part of score_panic (lines 238-241)
DrawdownPoints(d) ==
    IF RatGe(d, 20) THEN 2
    ELSE IF RatGe(d, 10) THEN 1
    ELSE 0

score_panic(s, days) ==
    LET st == compute_down_streak(s)
        d  == compute_drawdown_pct(s)
    IN  [score  |-> StreakPoints(st, days) + DrawdownPoints(d),
         streak |-> st,
         dd     |-> Round2(d)]

(* Strings: str.upper(), "k in s" and s.endswith(k) *)

LowerCase == "abcdefghijklmnopqrstuvwxyz"
UpperCase == "ABCDEFGHIJKLMNOPQRSTUVWXYZ"

UpperChar(ch) ==
    IF \E i \in 1..Len(LowerCase) : SubSeq(LowerCase, i, i) = ch
    THEN LET i == CHOOSE j \in 1..Len(LowerCase) : SubSeq(LowerCase, j, j) = ch
         IN  SubSeq(UpperCase, i, i)
    ELSE ch

RECURSIVE Upper(_)
Upper(s) ==
    IF Len(s) = 0 THEN ""
    ELSE UpperChar(SubSeq(s, 1, 1)) \o Upper(SubSeq(s, 2, Len(s)))

Contains(s, k) ==
    \E i \in 1..(Len(s) - Len(k) + 1) : SubSeq(s, i, i + Len(k) - 1) = k

EndsWith(s, k) ==
    Len(s) >= Len(k) /\ SubSeq(s, Len(s) - Len(k) + 1, Len(s)) = k

StartsWith(s, k) ==
    Len(s) >= Len(k) /\ SubSeq(s, 1, Len(k)) = k

(* Values of the Yahoo info dict *)

None == [t |-> "none", v |-> 0, s |-> ""]       \* key absent, or None
NaNValue == [t |-> "nan", v |-> 0, s |-> ""]    \* float("nan")
Num(v) == [t |-> "num", v |-> v, s |-> ""]      \* a number, in hundredths
Str(s) == [t |-> "str", v |-> 0, s |-> s]

\* str(info.get(key, "")).upper() of an absent key or of a string
UpperStrOf(x) == IF x.t = "str" THEN Upper(x.s) ELSE ""

\* get_fundamentals, lines 203-211, from the info dict ({} when the lookup
\* raises)
get_fundamentals(i) ==
    [sector          |-> UpperStrOf(i.sector),
     roe             |-> i.returnOnEquity,
     earnings_growth |-> i.earningsGrowth,
     revenue_growth  |-> i.revenueGrowth,
     debt_to_equity  |-> i.debtToEquity,
     quoteType       |-> UpperStrOf(i.quoteType)]

is_etf_like(symbol, fund) ==
    LET qt == fund.quoteType
        s  == Upper(symbol)
    IN  IF Contains(qt, "ETF") THEN TRUE
        ELSE IF EndsWith(s, "BEES") \/ s \in {"MON100", "MASPTOP50"} THEN TRUE
        ELSE FALSE

GROWTH_SECTOR_KEYWORDS ==
    <<"DEFENCE", "RAIL", "INFRA", "POWER", "RENEWABLE",
      "CAPITAL GOODS", "MANUFACTURING", "INSURANCE">>

\* isinstance(x, (int, float)): a number or NaN, not None and not a string
IsNumber(x) == x.t \in {"num", "nan"}

\* x > k and x <= k on a float, k in hundredths; False on NaN
Gt(x, k) == x.t = "num" /\ x.v > k
Le(x, k) == x.t = "num" /\ x.v <= k

\* score_growth, lines 261-264
EarningsPoints(eg) ==
    IF IsNumber(eg) /\ Gt(eg, 15) THEN 2
    ELSE IF IsNumber(eg) /\ Gt(eg, 5) THEN 1
    ELSE 0

\* score_growth, lines 266-267
RevenuePoints(rg) == IF IsNumber(rg) /\ Gt(rg, 10) THEN 1 ELSE 0

\* score_growth, lines 270-271
RoePoints(roe) == IF IsNumber(roe) /\ Gt(roe, 15) THEN 1 ELSE 0

\* the debt rule reading an absent value as 0
DebtPointsDefaultZero(de) ==
    IF de.t = "none" THEN 1
    ELSE IF Le(de, 100) THEN 1
    ELSE IF Le(de, 10000) THEN 1
    ELSE 0

\* score_growth, lines 275-279
DebtPoints(de) ==
    IF IsNumber(de)
    THEN IF Le(de, 100) THEN 1
         ELSE IF Le(de, 10000) THEN 1
         ELSE 0
    ELSE 0

\* score_growth, lines 282-283
SectorPoints(sector) ==
    IF \E i \in 1..Len(GROWTH_SECTOR_KEYWORDS) : Contains(sector, GROWTH_SECTOR_KEYWORDS[i])
    THEN 1 ELSE 0

\* score_growth that scores funds like stocks
score_growth_funds_too(fund, is_etf) ==
    EarningsPoints(fund.earnings_growth) + RevenuePoints(fund.revenue_growth)
    + RoePoints(fund.roe) + DebtPoints(fund.debt_to_equity)
    + SectorPoints(fund.sector)

score_growth(fund, is_etf) ==
    IF is_etf THEN 0
    ELSE EarningsPoints(fund.earnings_growth) + RevenuePoints(fund.revenue_growth)
         + RoePoints(fund.roe) + DebtPoints(fund.debt_to_equity)
         + SectorPoints(fund.sector)

classifyPanicFirst(panic_score, growth_score) ==
    IF panic_score >= 2 THEN <<"PANIC ADD", "20-30%">>
    ELSE IF panic_score >= 2 /\ growth_score >= 3 THEN <<"STRONG ADD", "30-40%">>
    ELSE IF growth_score >= 3 THEN <<"GROWTH ADD", "20-30%">>
    ELSE <<"WAIT", "0-10%">>

classify(panic_score, growth_score) ==
    IF panic_score >= 2 /\ growth_score >= 3 THEN <<"STRONG ADD", "30-40%">>
    ELSE IF panic_score >= 2 THEN <<"PANIC ADD", "20-30%">>
    ELSE IF growth_score >= 3 THEN <<"GROWTH ADD", "20-30%">>
    ELSE <<"WAIT", "0-10%">>

-----------------------------------------------------------------------------
(* portfolio_mailer.py: indicators *)

\* compute_streak without the two "break on the other direction" tests
RECURSIVE StreakScanNoBreak(_, _, _, _)
StreakScanNoBreak(c, i, u, d) ==
    IF i < 2 THEN <<u, d>>
    ELSE IF c[i] > c[i - 1] THEN StreakScanNoBreak(c, i - 1, u + 1, d)
    ELSE IF c[i] < c[i - 1] THEN StreakScanNoBreak(c, i - 1, u, d + 1)
    ELSE <<u, d>>

\* The loop of compute_streak from index i backwards with the counts so far.
RECURSIVE StreakScan(_, _, _, _)
StreakScan(c, i, u, d) ==
    IF i < 2 THEN <<u, d>>
    ELSE IF c[i] > c[i - 1]
         THEN IF d > 0 THEN <<u, d>> ELSE StreakScan(c, i - 1, u + 1, d)
    ELSE IF c[i] < c[i - 1]
         THEN IF u > 0 THEN <<u, d>> ELSE StreakScan(c, i - 1, u, d + 1)
    ELSE <<u, d>>

\* compute_streak after its dropna: <<up_streak, down_streak>>
StreakScanOf(c) == IF Len(c) < 2 THEN <<0, 0>> ELSE StreakScan(c, Len(c), 0, 0)

\* Returns <<up_streak, down_streak>>.
compute_streak(s) == StreakScanOf(dropna(s))

\* fetch_symbol_bundle, lines 95-103, for the ticker that answers: the closes
\* without NaN, or None (ok = FALSE) when fewer than two remain.
BundleCloses(s) ==
    LET c == dropna(s)
    IN  IF Len(c) >= 2 THEN [ok |-> TRUE, c |-> c] ELSE [ok |-> FALSE, c |-> <<>>]

\* safe_pct with the difference taken the other way round
safe_pct_flipped(numerator, denominator) ==
    IF denominator = 0 THEN Zero ELSE Rat(0 - numerator * 100, denominator)

\* safe_pct on a denominator that is a number: 0.0 when it is zero
safe_pct(numerator, denominator) ==
    IF denominator = 0 THEN Zero ELSE Rat(numerator * 100, denominator)

(* Natural numbers of any size, as little-endian digit sequences without    *)
(* leading zero digits: the exponential averages need more than 32 bits.    *)
BigBase == 100 * 100

RECURSIVE BigAddC(_, _, _)
BigAddC(a, b, carry) ==
    IF a = <<>> /\ b = <<>> THEN (IF carry = 0 THEN <<>> ELSE <<carry>>)
    ELSE LET x == (IF a = <<>> THEN 0 ELSE a[1]) + (IF b = <<>> THEN 0 ELSE b[1]) + carry
         IN  <<x % BigBase>> \o BigAddC(IF a = <<>> THEN <<>> ELSE Tail(a),
                                        IF b = <<>> THEN <<>> ELSE Tail(b),
                                        x \div BigBase)

BigAdd(a, b) == BigAddC(a, b, 0)

RECURSIVE BigMulC(_, _, _)
BigMulC(a, k, carry) ==
    IF a = <<>>
    THEN IF carry = 0 THEN <<>>
         ELSE <<carry % BigBase>> \o BigMulC(<<>>, k, carry \div BigBase)
    ELSE LET x == a[1] * k + carry
         IN  <<x % BigBase>> \o BigMulC(Tail(a), k, x \div BigBase)

\* a * k for a small natural k
BigMul(a, k) == IF k = 0 THEN <<>> ELSE BigMulC(a, k, 0)

RECURSIVE BigCmpFrom(_, _, _)
BigCmpFrom(a, b, i) ==
    IF i = 0 THEN 0
    ELSE IF a[i] < b[i] THEN 0 - 1
    ELSE IF a[i] > b[i] THEN 1
    ELSE BigCmpFrom(a, b, i - 1)

\* -1, 0 or 1 as a < b, a = b, a > b
BigCmp(a, b) ==
    IF Len(a) < Len(b) THEN 0 - 1
    ELSE IF Len(a) > Len(b) THEN 1
    ELSE BigCmpFrom(a, b, Len(a))

(* closes.ewm(span, adjust=False).mean(): y[1] = x[1] and                    *)
(*   y[t] = ((span - 1) * y[t-1] + 2 * x[t]) / (span + 1).                   *)
(* EwmScaled(c, span, t, sign) is [s, p] with p = (span + 1)^(t-1) and       *)
(* s = p * y[t] computed on the closes of that sign alone (the others taken  *)
(* as 0), so that y[t] = (s of sign 1 - s of sign -1) / p.                   *)
RECURSIVE EwmScaled(_, _, _, _)
EwmScaled(c, span, t, sign) ==
    LET x == IF sign * c[t] > 0 THEN sign * c[t] ELSE 0
    IN  IF t = 1 THEN [s |-> BigMul(<<1>>, x), p |-> <<1>>]
        ELSE LET prev == EwmScaled(c, span, t - 1, sign)
             IN  \* p is a power of span + 1, never zero: the test only has
                 \* the previous average evaluated before it is used
                 IF prev.p = <<>> THEN prev
                 ELSE [s |-> BigAdd(BigMul(prev.s, span - 1), BigMul(prev.p, 2 * x)),
                       p |-> BigMul(prev.p, span + 1)]

\* a * b for two big naturals
RECURSIVE BigMulBig(_, _)
BigMulBig(a, b) ==
    IF b = <<>> THEN <<>>
    ELSE LET rest == BigMulBig(a, Tail(b))
         IN  BigAdd(BigMul(a, b[1]), IF rest = <<>> THEN <<>> ELSE <<0>> \o rest)

\* sign of ewm(fast)[-1] - ewm(slow)[-1]
EwmCompare(c, fast, slow) ==
    LET n  == Len(c)
        fp == EwmScaled(c, fast, n, 1)
        fn == EwmScaled(c, fast, n, 0 - 1)
        sp == EwmScaled(c, slow, n, 1)
        sn == EwmScaled(c, slow, n, 0 - 1)
        \* (fp.s - fn.s) / fp.p  ?  (sp.s - sn.s) / sp.p
        lhs == BigAdd(BigMulBig(fp.s, sp.p), BigMulBig(sn.s, fp.p))
        rhs == BigAdd(BigMulBig(sp.s, fp.p), BigMulBig(fn.s, sp.p))
    IN  BigCmp(lhs, rhs)

\* main, lines 314-316
Trend(c) ==
    LET cmp == EwmCompare(c, 5, 10)
    IN  IF cmp > 0 THEN "UP" ELSE IF cmp < 0 THEN "DOWN" ELSE "FLAT"

\* c.iloc[-k:]
LastK(c, k) == SubSeq(c, Len(c) - k + 1, Len(c))

\* main, line 319
Window(c, lookback) == IF Len(c) >= lookback THEN LastK(c, lookback) ELSE c

\* main, lines 319-325: <<dd_pct, ru_pct>>
DrawdownRunup(c, lookback) ==
    LET window       == Window(c, lookback)
        rolling_high == SeqMax(window)
        rolling_low  == SeqMin(window)
        last_close   == c[Len(c)]
    IN  <<safe_pct(last_close - rolling_high, rolling_high),
          safe_pct(last_close - rolling_low, rolling_low)>>

\* f"{x:.1f}" of a rational: the sign is that of the value, also when it
\* rounds to zero
FmtPct1(r) ==
    LET t == RoundHalfEven(Abs(r.n) * 10, r.d)
    IN  (IF r.n < 0 THEN "-" ELSE "") \o ToString(t \div 10) \o "." \o ToString(t % 10)

\* the alert rules as an if / elif chain: only the first match is reported
AlertRulesFirstMatch(dn, u, tr, ddp, rup, streak_days, drawdown_pct, runup_pct) ==
    IF dn >= streak_days THEN <<"Down " \o ToString(dn) \o " days">>
    ELSE IF u >= streak_days THEN <<"Up " \o ToString(u) \o " days">>
    ELSE IF tr = "DOWN" /\ RatLe(ddp, 0 - Abs(drawdown_pct))
         THEN <<"Drawdown " \o FmtPct1(ddp) \o "%">>
    ELSE IF tr = "UP" /\ RatGe(rup, Abs(runup_pct))
         THEN <<"Run-up " \o FmtPct1(rup) \o "%">>
    ELSE <<>>

\* main, lines 328-335: the alert messages in the order they are appended
AlertRules(dn, u, tr, ddp, rup, streak_days, drawdown_pct, runup_pct) ==
    (IF dn >= streak_days THEN <<"Down " \o ToString(dn) \o " days">> ELSE <<>>)
    \o (IF u >= streak_days THEN <<"Up " \o ToString(u) \o " days">> ELSE <<>>)
    \o (IF tr = "DOWN" /\ RatLe(ddp, 0 - Abs(drawdown_pct))
        THEN <<"Drawdown " \o FmtPct1(ddp) \o "%">> ELSE <<>>)
    \o (IF tr = "UP" /\ RatGe(rup, Abs(runup_pct))
        THEN <<"Run-up " \o FmtPct1(rup) \o "%">> ELSE <<>>)

\* number of closes main asks for before it computes indicators (line 309)
MinHistory == 15

\* the row of a symbol with each indicator on its own minimum history: the
\* streaks from 2 closes, drawdown and run-up from any history, the trend
\* and the alerts from 15
MailerRowOwnMinimum(b, streak_days, drawdown_pct, runup_pct, lookback) ==
    IF b.ok
    THEN LET st == StreakScanOf(b.c)
             dr == DrawdownRunup(b.c, lookback)
             enough == Len(b.c) >= 15
             tr == IF enough THEN Trend(b.c) ELSE "NA"
         IN  [up_s |-> st[1], down_s |-> st[2], trend |-> tr,
              dd_pct |-> dr[1], ru_pct |-> dr[2],
              alert_msgs |-> IF enough
                             THEN AlertRules(st[2], st[1], tr, dr[1], dr[2],
                                             streak_days, drawdown_pct, runup_pct)
                             ELSE <<>>]
    ELSE [up_s |-> 0, down_s |-> 0, trend |-> "NA",
          dd_pct |-> Zero, ru_pct |-> Zero, alert_msgs |-> <<>>]

\* main, lines 302-342: the indicators and alerts of one symbol from the
\* closes of its bundle
MailerRow(b, streak_days, drawdown_pct, runup_pct, lookback) ==
    IF b.ok /\ Len(b.c) >= MinHistory
    THEN LET st == StreakScanOf(b.c)
             tr == Trend(b.c)
             dr == DrawdownRunup(b.c, lookback)
         IN  [up_s |-> st[1], down_s |-> st[2], trend |-> tr,
              dd_pct |-> dr[1], ru_pct |-> dr[2],
              alert_msgs |-> AlertRules(st[2], st[1], tr, dr[1], dr[2],
                                        streak_days, drawdown_pct, runup_pct)]
    ELSE [up_s |-> 0, down_s |-> 0, trend |-> "NA",
          dd_pct |-> Zero, ru_pct |-> Zero, alert_msgs |-> <<>>]

-----------------------------------------------------------------------------
(* Input spaces *)

SeqsUpTo(S, n) == UNION {[1..k -> S] : k \in 0..n}

\* closes used for the exhaustive short sequences: NaN, a negative and a zero
\* price, and prices 8, 9, 10 whose ratios sit on the 10% and 20% thresholds
CloseVals == {NaNClose, Px(0 - 1), Px(0), Px(8), Px(9), Px(10)}

ShortSeqs == SeqsUpTo(CloseVals, MaxLen)

\* A falling price ladder; its first eight levels are the scenario of the
\* specification, closes [100, 98, 95, 90, 85, 80, 78, 75].
Levels == <<100, 98, 95, 90, 85, 80, 78, 75, 74, 72, 70, 69>>

Scenario == [i \in 1..8 |-> Px(Levels[i])]

Reverse(s) == [i \in 1..Len(s) |-> s[Len(s) + 1 - i]]

\* Runs of the ladder, falling and rising, bare or after one more close that
\* is equal to, below or above the first close of the run.
Runs ==
    LET falling == {[k \in 1..(j - i + 1) |-> Px(Levels[i + k - 1])] :
                        i \in 1..Len(Levels), j \in 1..Len(Levels)}
        fall == {r \in falling : Len(r) >= 1}
        both == fall \cup {Reverse(r) : r \in fall}
    IN  both \cup {<<Px(r[1].v + e)>> \o r : r \in both, e \in {0 - 3, 0, 3}}

Flat(k, v) == [i \in 1..k |-> Px(v)]

\* The ladder from its top, falling, and the same closes rising.
LadderRuns ==
    LET fall == {[k \in 1..j |-> Px(Levels[k])] : j \in 1..Len(Levels)}
    IN  fall \cup {Reverse(r) : r \in fall}

\* Histories around the 15 closes the mailer asks for and the 20 of the
\* default lookback: a flat stretch, above or below the ladder, then a run.
LongRuns ==
    {Flat(n - Len(r), v) \o r : r \in LadderRuns, n \in {14, 15, 21}, v \in {100, 60}}

\* Histories with a NaN, and with zero and negative closes.
LongSpecial ==
    { Flat(7, 100) \o <<NaNClose>> \o Flat(7, 100),
      Flat(7, 100) \o <<NaNClose>> \o Flat(6, 100) \o <<Px(98), Px(95)>>,
      \* eight falling days from 100 to 75
      Flat(7, 100) \o <<Px(99), Px(98), Px(95), Px(90), Px(85), Px(80), Px(78), Px(75)>>,
      Flat(15, 0),
      Flat(14, 0) \o <<Px(0 - 1)>>,
      Flat(14, 0) \o <<Px(5)>>,
      Flat(14, 0 - 1) \o <<Px(0 - 2)>>,
      Flat(14, 0 - 2) \o <<Px(0 - 1)>>,
      Flat(12, 0 - 1) \o <<Px(0 - 2), Px(0 - 3), Px(0 - 4)>> }

LongSeqs == LongRuns \cup LongSpecial

CloseSeqs == ShortSeqs \cup Runs \cup LongSeqs

Config(days, streak_days, drawdown, runup, lookback) ==
    [days |-> days, streak_days |-> streak_days, drawdown |-> drawdown,
     runup |-> runup, lookback |-> lookback]

\* The defaults of both programs with every PANIC_STREAK_DAYS, and other
\* alert settings (a threshold given with a minus sign among them).
Configs ==
    {Config(t, 3, 8, 10, 20) : t \in 1..MaxThreshold}
    \cup {Config(7, 7, 8, 10, 20), Config(7, 3, 0 - 8, 0 - 10, 5), Config(7, 1, 25, 45, 5)}

SetConfig(cfg) ==
    /\ PANIC_STREAK_DAYS = cfg.days
    /\ ALERT_STREAK_DAYS = cfg.streak_days
    /\ ALERT_DRAWDOWN_PCT = cfg.drawdown
    /\ ALERT_RUNUP_PCT = cfg.runup
    /\ DRAWDOWN_LOOKBACK = cfg.lookback

\* os.environ.get defaults: allocator line 49, mailer lines 30-33
DefaultPanicStreakDays == 7

DefaultConfig == SetConfig(Config(DefaultPanicStreakDays, 3, 8, 10, 20))

Info(sector, roe, eg, rg, de, qt) ==
    [sector |-> sector, returnOnEquity |-> roe, earningsGrowth |-> eg,
     revenueGrowth |-> rg, debtToEquity |-> de, quoteType |-> qt]

\* the info dict of a failed lookup
EmptyInfo == Info(None, None, None, None, None, None)

\* values on both sides of every threshold of score_growth, in hundredths
EgVals == {None, NaNValue, Num(5), Num(6), Num(15), Num(16), Num(20)}
RgVals == {None, Num(10), Num(12)}
RoeVals == {None, Num(15), Num(18)}
DeVals == {None, NaNValue, Num(0 - 50), Num(50), Num(100), Num(101),
           Num(10000), Num(10001)}
SectorVals == {None, Str("Technology"), Str("Aerospace & Defence"), Str("DEFENCE")}

\* a stock, a stock reported as a fund, and two funds known by their symbol
SymbolKinds ==
    {<<"TCS", Str("EQUITY")>>, <<"TCS", Str("etf")>>,
     <<"GOLDBEES", Str("EQUITY")>>, <<"MON100", None>>}

Infos ==
    {Info(sc, roe, eg, rg, de, None) :
        sc \in SectorVals, roe \in RoeVals, eg \in EgVals, rg \in RgVals, de \in DeVals}

NoFundamentals ==
    /\ sym = "" /\ info = EmptyInfo /\ f = get_fundamentals(EmptyInfo) /\ etf = FALSE

\* main's defaults for a symbol, lines 303-307
NoMailerRow ==
    /\ up_s = 0 /\ down_s = 0 /\ trend = "NA"
    /\ dd_pct = Zero /\ ru_pct = Zero /\ alert_msgs = <<>>

Actions == {"STRONG ADD", "PANIC ADD", "GROWTH ADD", "WAIT"}

\* no run in progress: the collections main starts with
NoRun ==
    /\ symbols = <<>> /\ handled = 0 /\ yahoo = ""
    /\ rows = <<>> /\ unresolved = <<>> /\ alerts_view = <<>> /\ sent = <<>>

-----------------------------------------------------------------------------
(* classify applied to every pair of scores *)

InitClassify ==
    /\ pc = "scored"
    /\ p_score \in 0..MaxScore
    /\ g_score \in 0..MaxScore
    /\ DefaultConfig
    /\ closes = <<>>
    /\ streak = 0 /\ dd = 0 /\ up = 0 /\ down = 0
    /\ action = "" /\ alloc = ""
    /\ NoFundamentals
    /\ NoMailerRow
    /\ NoRun

\* main, line 368: action, alloc = classify(p_score, g_score)
Classify ==
    /\ pc = "scored"
    /\ action' = classify(p_score, g_score)[1]
    /\ alloc' = classify(p_score, g_score)[2]
    /\ pc' = "classified"
    /\ UNCHANGED <<runVars, cfgVars, closes, fundVars, panicVars, up, down, g_score, mailVars>>

NextClassify == Classify

SpecClassify == InitClassify /\ [][NextClassify]_vars

-----------------------------------------------------------------------------
(* The indicator and scoring functions applied to one close history *)

InitIndicators ==
    /\ pc = "input"
    /\ \E cfg \in Configs : SetConfig(cfg)
    /\ closes \in CloseSeqs
    /\ p_score = 0 /\ streak = 0 /\ dd = 0 /\ up = 0 /\ down = 0
    /\ g_score = 0 /\ action = "" /\ alloc = ""
    /\ NoFundamentals
    /\ NoMailerRow
    /\ NoRun

\* allocator main, line 365: p_score, streak, dd = score_panic(hist)
ScorePanic ==
    /\ pc = "input"
    /\ LET r == score_panic(closes, PANIC_STREAK_DAYS)
       IN  /\ p_score' = r.score
           /\ streak' = r.streak
           /\ dd' = r.dd
    /\ pc' = "panic"
    /\ UNCHANGED <<runVars, cfgVars, closes, fundVars, up, down, g_score, action, alloc, mailVars>>

\* the mailer's compute_streak on the same history
ComputeStreak ==
    /\ pc = "panic"
    /\ up' = compute_streak(closes)[1]
    /\ down' = compute_streak(closes)[2]
    /\ pc' = "streak"
    /\ UNCHANGED <<runVars, cfgVars, closes, fundVars, panicVars, g_score, action, alloc, mailVars>>

\* mailer main, lines 292-342, for a symbol whose ticker answers with this
\* history
MailerSymbol ==
    /\ pc = "streak"
    /\ LET r == MailerRow(BundleCloses(closes), ALERT_STREAK_DAYS,
                          ALERT_DRAWDOWN_PCT, ALERT_RUNUP_PCT, DRAWDOWN_LOOKBACK)
       IN  /\ up_s' = r.up_s
           /\ down_s' = r.down_s
           /\ trend' = r.trend
           /\ dd_pct' = r.dd_pct
           /\ ru_pct' = r.ru_pct
           /\ alert_msgs' = r.alert_msgs
    /\ pc' = "row"
    /\ UNCHANGED <<runVars, cfgVars, closes, fundVars, panicVars, up, down, g_score, action, alloc>>

NextIndicators == ScorePanic \/ ComputeStreak \/ MailerSymbol

SpecIndicators == InitIndicators /\ [][NextIndicators]_vars

-----------------------------------------------------------------------------
(* The growth score of one symbol from the Yahoo info of its ticker *)

InitGrowth ==
    /\ pc = "resolved"
    /\ DefaultConfig
    /\ closes = <<>>
    /\ \E k \in SymbolKinds, i \in Infos :
          /\ sym = k[1]
          /\ info = [i EXCEPT !.quoteType = k[2]]
    /\ f = get_fundamentals(EmptyInfo) /\ etf = FALSE
    /\ p_score = 0 /\ streak = 0 /\ dd = 0 /\ up = 0 /\ down = 0
    /\ g_score = 0 /\ action = "" /\ alloc = ""
    /\ NoMailerRow
    /\ NoRun

\* allocator main, line 362: f = get_fundamentals(yahoo)
GetFundamentals ==
    /\ pc = "resolved"
    /\ f' = get_fundamentals(info)
    /\ pc' = "fundamentals"
    /\ UNCHANGED <<runVars, cfgVars, closes, sym, info, etf, panicVars, up, down, g_score,
                   action, alloc, mailVars>>

\* allocator main, line 363: etf = is_etf_like(sym, f)
IsEtfLike ==
    /\ pc = "fundamentals"
    /\ etf' = is_etf_like(sym, f)
    /\ pc' = "etf"
    /\ UNCHANGED <<runVars, cfgVars, closes, sym, info, f, panicVars, up, down, g_score,
                   action, alloc, mailVars>>

\* allocator main, line 366: g_score = score_growth(f, etf)
ScoreGrowth ==
    /\ pc = "etf"
    /\ g_score' = score_growth(f, etf)
    /\ pc' = "growth"
    /\ UNCHANGED <<runVars, cfgVars, closes, fundVars, panicVars, up, down, action, alloc,
                   mailVars>>

NextGrowth == GetFundamentals \/ IsEtfLike \/ ScoreGrowth

SpecGrowth == InitGrowth /\ [][NextGrowth]_vars

-----------------------------------------------------------------------------
(* What Yahoo answers to one history request *)

\* t.history(...) raising (source unreachable, rate limit)
Raises == [raises |-> TRUE, closes |-> <<>>]

\* t.history(...) returning a frame with these closes; an empty frame has none
History(c) == [raises |-> FALSE, closes |-> c]

-----------------------------------------------------------------------------
(* portfolio_mailer.py: one run over the holdings *)

\* fetch_symbol_bundle, lines 92-101: outs[i] is the answer for candidate i
\* (SYMBOL.NS, then SYMBOL.BO).  The history call is not guarded, so an
\* answer that raises ends the function with the exception.
RECURSIVE BundleFrom(_, _)
BundleFrom(outs, i) ==
    IF i > Len(outs) THEN [raised |-> FALSE, ok |-> FALSE, c |-> <<>>]
    ELSE IF outs[i].raises THEN [raised |-> TRUE, ok |-> FALSE, c |-> <<>>]
    ELSE IF BundleCloses(outs[i].closes).ok
         THEN [raised |-> FALSE, ok |-> TRUE, c |-> BundleCloses(outs[i].closes).c]
    ELSE BundleFrom(outs, i + 1)

fetch_symbol_bundle(outs) == BundleFrom(outs, 1)

\* " | ".join(alert_msgs)
RECURSIVE Join(_)
Join(msgs) ==
    IF msgs = <<>> THEN ""
    ELSE IF Len(msgs) = 1 THEN msgs[1]
    ELSE msgs[1] \o " | " \o Join(Tail(msgs))

\* main, lines 337-342 and 366-371: the columns of one symbol that the alert
\* table reads; "Drawdown %" and "Run-up %" are rounded to two decimals (kept
\* in hundredths), dd_pct and ru_pct are the values before rounding
FrameRow(symbol, r) ==
    [Symbol |-> symbol, Trend |-> r.trend, UpStreak |-> r.up_s,
     DownStreak |-> r.down_s, dd_pct |-> r.dd_pct, ru_pct |-> r.ru_pct,
     Drawdown |-> Round2(r.dd_pct), Runup |-> Round2(r.ru_pct),
     Alert |-> Join(r.alert_msgs)]

\* build_email, line 161: only rows with a non-empty Alert
RECURSIVE alerts_df(_)
alerts_df(df) ==
    IF df = <<>> THEN <<>>
    ELSE IF Len(Head(df).Alert) > 0 THEN <<Head(df)>> \o alerts_df(Tail(df))
         ELSE alerts_df(Tail(df))

\* build_email, lines 180-183: the __sev column, from the columns of the row
Severity(r, streak_days, drawdown_pct) ==
    (IF r.Trend = "DOWN" THEN 2 ELSE 0)
    + (IF r.Drawdown <= (0 - Abs(drawdown_pct)) * 100 THEN 2 ELSE 0)
    + (IF r.DownStreak >= streak_days THEN 1 ELSE 0)

\* the sort order with the down streak ascending
SortsBeforeStreakAscending(a, b, streak_days, drawdown_pct) ==
    LET sa == Severity(a, streak_days, drawdown_pct)
        sb == Severity(b, streak_days, drawdown_pct)
    IN  \/ sa > sb
        \/ sa = sb /\ a.Drawdown < b.Drawdown
        \/ sa = sb /\ a.Drawdown = b.Drawdown /\ a.DownStreak < b.DownStreak

\* build_email, line 184: a sorts strictly before b under
\* ["__sev", "Drawdown %", "Down Streak"], ascending = [False, True, False]
SortsBefore(a, b, streak_days, drawdown_pct) ==
    LET sa == Severity(a, streak_days, drawdown_pct)
        sb == Severity(b, streak_days, drawdown_pct)
    IN  \/ sa > sb
        \/ sa = sb /\ a.Drawdown < b.Drawdown
        \/ sa = sb /\ a.Drawdown = b.Drawdown /\ a.DownStreak > b.DownStreak

\* r put into a sorted table after the rows it does not sort before
RECURSIVE InsertRow(_, _, _, _)
InsertRow(sorted, r, streak_days, drawdown_pct) ==
    IF sorted = <<>> THEN <<r>>
    ELSE IF SortsBefore(r, Head(sorted), streak_days, drawdown_pct)
         THEN <<r>> \o sorted
    ELSE <<Head(sorted)>> \o InsertRow(Tail(sorted), r, streak_days, drawdown_pct)

\* sort_values on several keys: rows with equal keys keep their order
RECURSIVE SortRows(_, _, _, _)
SortRows(df, n, streak_days, drawdown_pct) ==
    IF n = 0 THEN <<>>
    ELSE InsertRow(SortRows(df, n - 1, streak_days, drawdown_pct), df[n],
                   streak_days, drawdown_pct)

\* build_email, lines 161-184
build_alerts_view(df, streak_days, drawdown_pct) ==
    LET a == alerts_df(df)
    IN  SortRows(a, Len(a), streak_days, drawdown_pct)

(* Histories a holding can have *)

Closes(vals) == [i \in 1..Len(vals) |-> Px(vals[i])]

\* eight falling days to 25% below the high
HFall8 == Flat(7, 100) \o Closes(<<99, 98, 95, 90, 85, 80, 78, 75>>)
\* seven falling days to the same close
HFall7 == Flat(8, 100) \o Closes(<<98, 95, 90, 85, 80, 78, 75>>)
\* eight rising days
HRise8 == Flat(7, 100) \o Closes(<<101, 102, 105, 110, 115, 120, 122, 125>>)
\* three falling days to 7.996% below the high
HNear8 == Flat(12, 25000) \o Closes(<<24000, 23500, 23001>>)
\* a drop of 20% and of 30% that then holds
HDrop20 == Flat(12, 100) \o Closes(<<80, 80, 80>>)
HDrop30 == Flat(12, 100) \o Closes(<<70, 70, 70>>)
\* nothing to report
HQuiet == Flat(15, 100)

MailerAnswers ==
    {Raises, History(<<>>), History(Scenario), History(HFall8), History(HFall7),
     History(HRise8), History(HNear8), History(HDrop20), History(HDrop30),
     History(HQuiet)}

Holdings == {<<"TCS">>, <<"TCS", "INFY">>, <<"TCS", "INFY", "SBIN">>}

InitMailer ==
    /\ pc = "m_loop"
    /\ DefaultConfig
    /\ symbols \in Holdings
    /\ handled = 0 /\ yahoo = "" /\ rows = <<>> /\ unresolved = <<>>
    /\ alerts_view = <<>> /\ sent = <<>>
    /\ closes = <<>>
    /\ p_score = 0 /\ streak = 0 /\ dd = 0 /\ up = 0 /\ down = 0
    /\ g_score = 0 /\ action = "" /\ alloc = ""
    /\ NoFundamentals
    /\ NoMailerRow

\* main, lines 291-342: the loop body for the next holding
MailerLoop ==
    /\ pc = "m_loop"
    /\ handled < Len(symbols)
    /\ \E first \in MailerAnswers, second \in MailerAnswers :
          LET bundle == fetch_symbol_bundle(<<first, second>>)
              r == MailerRow(bundle, ALERT_STREAK_DAYS, ALERT_DRAWDOWN_PCT,
                             ALERT_RUNUP_PCT, DRAWDOWN_LOOKBACK)
          IN  IF bundle.raised
              THEN /\ pc' = "m_fetch_raised"
                   /\ UNCHANGED <<handled, rows, mailVars>>
              ELSE /\ pc' = "m_loop"
                   /\ handled' = handled + 1
                   /\ up_s' = r.up_s
                   /\ down_s' = r.down_s
                   /\ trend' = r.trend
                   /\ dd_pct' = r.dd_pct
                   /\ ru_pct' = r.ru_pct
                   /\ alert_msgs' = r.alert_msgs
                   /\ rows' = Append(rows, FrameRow(symbols[handled + 1], r))
    /\ UNCHANGED <<cfgVars, closes, fundVars, panicVars, up, down, g_score, action,
                   alloc, symbols, yahoo, unresolved, alerts_view, sent>>

\* main, line 389: build_email(df, now_ist), after the loop
BuildEmail ==
    /\ pc = "m_loop"
    /\ handled = Len(symbols)
    /\ alerts_view' = build_alerts_view(rows, ALERT_STREAK_DAYS, ALERT_DRAWDOWN_PCT)
    /\ pc' = "m_email"
    /\ UNCHANGED <<cfgVars, closes, fundVars, panicVars, up, down, g_score, action,
                   alloc, mailVars, symbols, handled, yahoo, rows, unresolved, sent>>

\* main, line 390: send_email(...), which returns or raises
MailerSend ==
    /\ pc = "m_email"
    /\ \/ /\ sent' = Append(sent, "Portfolio Update")
          /\ pc' = "m_done"
       \/ /\ pc' = "m_send_raised"
          /\ UNCHANGED sent
    /\ UNCHANGED <<cfgVars, closes, fundVars, panicVars, up, down, g_score, action,
                   alloc, mailVars, symbols, handled, yahoo, rows, unresolved,
                   alerts_view>>

NextMailer == MailerLoop \/ BuildEmail \/ MailerSend

SpecMailer == InitMailer /\ [][NextMailer]_vars

-----------------------------------------------------------------------------
(* portfolio_allocator.py: one run over the universe *)

\* number of cells of the symbol column of the universe file
MaxUniverse == 2

\* str.strip() and str.replace(" ", ""), for the blank
RECURSIVE Strip(_)
Strip(s) ==
    IF Len(s) = 0 THEN ""
    ELSE IF SubSeq(s, 1, 1) = " " THEN Strip(SubSeq(s, 2, Len(s)))
    ELSE IF SubSeq(s, Len(s), Len(s)) = " " THEN Strip(SubSeq(s, 1, Len(s) - 1))
    ELSE s

RECURSIVE RemoveSpaces(_)
RemoveSpaces(s) ==
    IF Len(s) = 0 THEN ""
    ELSE (IF SubSeq(s, 1, 1) = " " THEN "" ELSE SubSeq(s, 1, 1))
         \o RemoveSpaces(SubSeq(s, 2, Len(s)))

\* s[:-len(k)] and s[len(k):]
DropLast(s, k) == SubSeq(s, 1, Len(s) - Len(k))
DropFirst(s, k) == SubSeq(s, Len(k) + 1, Len(s))

ZerodhaSuffixes == <<"-EQ", "-BE", "-BZ", "-BL", "-SM">>

\* normalize_symbol, lines 72-74: each suffix is removed once, in order
RECURSIVE RemoveSuffixes(_, _)
RemoveSuffixes(s, i) ==
    IF i > Len(ZerodhaSuffixes) THEN s
    ELSE RemoveSuffixes(IF EndsWith(s, ZerodhaSuffixes[i])
                        THEN DropLast(s, ZerodhaSuffixes[i]) ELSE s, i + 1)

\* ALIASES.get(s, s)
Alias(s) ==
    IF s = "SILVERBEE" THEN "SILVERBEES"
    ELSE IF s = "GOLDBEE" THEN "GOLDBEES"
    ELSE s

normalize_symbol(symbol) ==
    LET s1 == RemoveSuffixes(Upper(Strip(symbol)), 1)
        s2 == IF StartsWith(s1, "NSE:") THEN DropFirst(s1, "NSE:") ELSE s1
        s3 == IF StartsWith(s2, "BSE:") THEN DropFirst(s2, "BSE:") ELSE s2
    IN  Alias(RemoveSpaces(s3))

\* a cell of the symbol column: a string, or empty (NaN)
Cell(s) == [nan |-> FALSE, s |-> s]
NaNCell == [nan |-> TRUE, s |-> ""]

\* Series.unique(): first occurrences, in order
RECURSIVE Unique(_, _)
Unique(s, seen) ==
    IF s = <<>> THEN <<>>
    ELSE IF Head(s) \in seen THEN Unique(Tail(s), seen)
         ELSE <<Head(s)>> \o Unique(Tail(s), seen \cup {Head(s)})

\* read_universe, lines 116-125: dropna, normalize, unique, then drop the
\* blanks and "NAN"
RECURSIVE NormalizedCells(_)
NormalizedCells(col) ==
    IF col = <<>> THEN <<>>
    ELSE IF Head(col).nan THEN NormalizedCells(Tail(col))
         ELSE <<normalize_symbol(Head(col).s)>> \o NormalizedCells(Tail(col))

RECURSIVE ValidSymbols(_)
ValidSymbols(syms) ==
    IF syms = <<>> THEN <<>>
    ELSE IF Head(syms) # "" /\ Upper(Head(syms)) # "NAN"
         THEN <<Head(syms)>> \o ValidSymbols(Tail(syms))
         ELSE ValidSymbols(Tail(syms))

\* the symbols read_universe returns; it raises when there are none
read_universe(col) == ValidSymbols(Unique(NormalizedCells(col), {}))

(* The symbol columns a universe file can have, and what read_universe and  *)
(* resolve_yahoo_ticker make of them, computed once for all runs            *)

UniverseCells ==
    {Cell("tcs"), Cell("TCS-EQ"), Cell("NSE:INFY"), Cell("infy.bo"),
     Cell("GOLDBEE"), Cell("nan"), NaNCell}

UniverseColumns == SeqsUpTo(UniverseCells, MaxUniverse)

\* what read_universe returns for these columns; <<>> stands for its ValueError
Universes == {read_universe(col) : col \in UniverseColumns}

UniverseSymbols == UNION {{u[i] : i \in 1..Len(u)} : u \in Universes}

\* try_fetch_history accepting any history of two closes, like the mailer
try_fetch_history_two_closes(answer) ==
    IF answer.raises THEN [ok |-> FALSE, closes |-> <<>>]
    ELSE IF Len(dropna(answer.closes)) >= 2
         THEN [ok |-> TRUE, closes |-> answer.closes]
    ELSE [ok |-> FALSE, closes |-> <<>>]

\* try_fetch_history, lines 137-145, on what Yahoo answers for the ticker: the
\* history when it has at least 15 closes, None (ok = FALSE) otherwise and
\* when the request raises
try_fetch_history(answer) ==
    IF answer.raises THEN [ok |-> FALSE, closes |-> <<>>]
    ELSE IF Len(dropna(answer.closes)) >= MinHistory
         THEN [ok |-> TRUE, closes |-> answer.closes]
    ELSE [ok |-> FALSE, closes |-> <<>>]

\* resolve_yahoo_ticker, lines 152-161
Candidates(symbol) ==
    LET base == normalize_symbol(symbol)
    IN  IF EndsWith(base, ".NS") \/ EndsWith(base, ".BO")
        THEN LET base2 == SubSeq(base, 1, Len(base) - 3)
             IN  <<base, base2 \o ".NS", base2 \o ".BO">>
        ELSE <<base \o ".NS", base \o ".BO">>

CandidatesOf == [symbol \in UniverseSymbols |-> Candidates(symbol)]

\* resolve_yahoo_ticker, lines 163-167: the first candidate with a usable
\* history, "" for None; answers[i] is what Yahoo answers for candidate i
RECURSIVE FirstUsable(_, _, _)
FirstUsable(candidates, answers, i) ==
    IF i > Len(candidates) THEN ""
    ELSE IF try_fetch_history(answers[i]).ok THEN candidates[i]
    ELSE FirstUsable(candidates, answers, i + 1)

resolve_yahoo_ticker(symbol, answers) == FirstUsable(CandidatesOf[symbol], answers, 1)

\* the email main always sends as the opportunities report
report_subject_always_opportunities(processed) == "Investment Opportunities (Universe)"

\* main, lines 381-383 and 416: the subject of the one email, without the date
report_subject(processed) ==
    IF processed = <<>> THEN "Opportunity Allocator (No Data)"
    ELSE "Investment Opportunities (Universe)"

(* Inputs of a run *)

\* a request that raises, an empty frame, a history too short to use, and two
\* usable histories
AllocAnswers ==
    {Raises, History(<<>>), History(Scenario), History(HFall8), History(HQuiet)}

\* the info of a failed lookup, of a stock with strong fundamentals, of a fund
AllocInfos ==
    {EmptyInfo,
     Info(Str("Aerospace & Defence"), Num(18), Num(20), Num(12), Num(50), Str("EQUITY")),
     Info(None, None, None, None, None, Str("ETF"))}

\* the usable histories and the fundamentals of a run, and score_panic and
\* is_etf_like on them, computed once for all runs
RunHistories == {a.closes : a \in {x \in AllocAnswers : try_fetch_history(x).ok}}

RunFundamentals == {get_fundamentals(i) : i \in AllocInfos}

PanicDays == {DefaultPanicStreakDays}

score_panic_of ==
    [h \in RunHistories |-> [days \in PanicDays |-> score_panic(h, days)]]

is_etf_like_of ==
    [symbol \in UniverseSymbols |-> [fund \in RunFundamentals |-> is_etf_like(symbol, fund)]]

InitAllocator ==
    /\ pc = "a_start"
    /\ DefaultConfig
    /\ closes = <<>>
    /\ p_score = 0 /\ streak = 0 /\ dd = 0 /\ up = 0 /\ down = 0
    /\ g_score = 0 /\ action = "" /\ alloc = ""
    /\ NoFundamentals
    /\ NoMailerRow
    /\ NoRun

\* main, line 346: symbols = read_universe(UNIVERSE_FILE); the file cannot be
\* read, or has no valid symbol, and the run ends with the exception
ReadUniverse ==
    /\ pc = "a_start"
    /\ \/ \E universe \in Universes :
             /\ universe # <<>>
             /\ symbols' = universe
             /\ pc' = "a_loop"
       \/ /\ pc' = "a_raised"
          /\ UNCHANGED symbols
    /\ UNCHANGED <<cfgVars, closes, fundVars, panicVars, up, down, g_score, action,
                   alloc, mailVars, handled, yahoo, rows, unresolved, alerts_view,
                   sent>>

\* main, lines 351-355: the next symbol and its ticker
Resolve ==
    /\ pc = "a_loop"
    /\ handled < Len(symbols)
    /\ sym' = symbols[handled + 1]
    /\ \E answers \in [1..Len(CandidatesOf[symbols[handled + 1]]) -> AllocAnswers] :
          yahoo' = resolve_yahoo_ticker(symbols[handled + 1], answers)
    /\ IF yahoo' = ""
       THEN /\ unresolved' = Append(unresolved, sym')
            /\ handled' = handled + 1
            /\ pc' = "a_loop"
       ELSE /\ pc' = "a_fetch"
            /\ UNCHANGED <<unresolved, handled>>
    /\ UNCHANGED <<cfgVars, closes, info, f, etf, panicVars, up, down, g_score,
                   action, alloc, mailVars, symbols, rows, alerts_view, sent>>

\* main, lines 357-360: the history of the ticker, fetched again
FetchHistory ==
    /\ pc = "a_fetch"
    /\ \E answer \in AllocAnswers :
          LET hist == try_fetch_history(answer)
          IN  IF ~hist.ok
              THEN /\ unresolved' = Append(unresolved, sym)
                   /\ handled' = handled + 1
                   /\ pc' = "a_loop"
                   /\ UNCHANGED closes
              ELSE /\ closes' = hist.closes
                   /\ pc' = "a_fund"
                   /\ UNCHANGED <<unresolved, handled>>
    /\ UNCHANGED <<cfgVars, fundVars, panicVars, up, down, g_score, action, alloc,
                   mailVars, symbols, yahoo, rows, alerts_view, sent>>

\* main, line 362: f = get_fundamentals(yahoo), from what Yahoo knows
Fundamentals ==
    /\ pc = "a_fund"
    /\ \E i \in AllocInfos :
          /\ info' = i
          /\ f' = get_fundamentals(i)
    /\ pc' = "a_etf"
    /\ UNCHANGED <<cfgVars, closes, sym, etf, panicVars, up, down, g_score, action,
                   alloc, mailVars, runVars>>

\* main, line 363
EtfLike ==
    /\ pc = "a_etf"
    /\ etf' = is_etf_like_of[sym][f]
    /\ pc' = "a_panic"
    /\ UNCHANGED <<cfgVars, closes, sym, info, f, panicVars, up, down, g_score,
                   action, alloc, mailVars, runVars>>

\* main, line 365
Panic ==
    /\ pc = "a_panic"
    /\ LET r == score_panic_of[closes][PANIC_STREAK_DAYS]
       IN  /\ p_score' = r.score
           /\ streak' = r.streak
           /\ dd' = r.dd
    /\ pc' = "a_growth"
    /\ UNCHANGED <<cfgVars, closes, fundVars, up, down, g_score, action, alloc,
                   mailVars, runVars>>

\* main, line 366
Growth ==
    /\ pc = "a_growth"
    /\ g_score' = score_growth(f, etf)
    /\ pc' = "a_classify"
    /\ UNCHANGED <<cfgVars, closes, fundVars, panicVars, up, down, action, alloc,
                   mailVars, runVars>>

\* main, line 368
ClassifySymbol ==
    /\ pc = "a_classify"
    /\ action' = classify(p_score, g_score)[1]
    /\ alloc' = classify(p_score, g_score)[2]
    /\ pc' = "a_append"
    /\ UNCHANGED <<cfgVars, closes, fundVars, panicVars, up, down, g_score, mailVars,
                   runVars>>

\* main, lines 370-379: the row of the symbol
AppendRow ==
    /\ pc = "a_append"
    /\ rows' = Append(rows, [Symbol |-> sym, Yahoo |-> yahoo, DownStreak |-> streak,
                             Drawdown |-> dd, Panic |-> p_score, Growth |-> g_score,
                             Action |-> action, Allocation |-> alloc])
    /\ handled' = handled + 1
    /\ pc' = "a_loop"
    /\ UNCHANGED <<cfgVars, closes, fundVars, panicVars, up, down, g_score, action,
                   alloc, mailVars, symbols, yahoo, unresolved, alerts_view, sent>>

\* main, lines 381-437: after the loop, the one email; send_email returns,
\* or raises and ends the run
Report ==
    /\ pc = "a_loop"
    /\ handled = Len(symbols)
    /\ \/ /\ sent' = Append(sent, report_subject(rows))
          /\ pc' = "a_done"
       \/ /\ pc' = "a_send_raised"
          /\ UNCHANGED sent
    /\ UNCHANGED <<cfgVars, closes, fundVars, panicVars, up, down, g_score, action,
                   alloc, mailVars, symbols, handled, yahoo, rows, unresolved,
                   alerts_view>>

NextAllocator ==
    \/ ReadUniverse \/ Resolve \/ FetchHistory \/ Fundamentals \/ EtfLike
    \/ Panic \/ Growth \/ ClassifySymbol \/ AppendRow \/ Report

SpecAllocator == InitAllocator /\ [][NextAllocator]_vars

\* the run is a sequential program: a step that can be taken is taken
FairAllocator == SpecAllocator /\ WF_vars(NextAllocator)

-----------------------------------------------------------------------------
(* Properties of classify (SpecClassify) *)

\* C1: for every pair of scores classify returns exactly one of the four
\* outcomes: STRONG ADD with 30-40% iff panic >= 2 and growth >= 3, PANIC ADD
\* with 20-30% iff panic >= 2 and growth < 3, GROWTH ADD with 20-30% iff
\* panic < 2 and growth >= 3, WAIT with 0-10% otherwise.
C1_ClassifyPartition ==
    pc = "classified" =>
        /\ action \in Actions
        /\ (action = "STRONG ADD") <=> (p_score >= 2 /\ g_score >= 3)
        /\ (action = "PANIC ADD") <=> (p_score >= 2 /\ g_score < 3)
        /\ (action = "GROWTH ADD") <=> (p_score < 2 /\ g_score >= 3)
        /\ (action = "WAIT") <=> (p_score < 2 /\ g_score < 3)
        /\ (action = "STRONG ADD") => alloc = "30-40%"
        /\ (action \in {"PANIC ADD", "GROWTH ADD"}) => alloc = "20-30%"
        /\ (action = "WAIT") => alloc = "0-10%"

\* both scores at their maximum are classified STRONG ADD
C1_Witness ==
    pc = "classified" /\ p_score = 4 /\ g_score = 6
    /\ action = "STRONG ADD" /\ alloc = "30-40%"

-----------------------------------------------------------------------------
(* Properties of score_growth (SpecGrowth) *)

\* the fundamentals of the scenario: earningsGrowth 0.20, revenueGrowth 0.12,
\* returnOnEquity 0.18, debtToEquity 0.5, sector DEFENCE
BestFundamentals ==
    /\ f.earnings_growth = Num(20) /\ f.revenue_growth = Num(12)
    /\ f.roe = Num(18) /\ f.debt_to_equity = Num(50) /\ f.sector = "DEFENCE"

\* C5: score_growth returns exactly 0 whenever the symbol is fund-like,
\* whatever the fundamentals record holds.
C5_FundScoresZero ==
    (pc = "growth" /\ etf) => g_score = 0

\* a fund whose fundamentals would score 6 as a stock
C5_Witness ==
    pc = "growth" /\ etf /\ BestFundamentals /\ g_score = 0

\* what score_growth added for debt-to-equity: the score less the other rules
DebtPart ==
    g_score - (EarningsPoints(f.earnings_growth) + RevenuePoints(f.revenue_growth)
               + RoePoints(f.roe) + SectorPoints(f.sector))

\* C6: for a stock a negative debtToEquity contributes 0; the rule adds its
\* point only for values in the acceptable-leverage bucket, 0 up to 100.
C6_NegativeDebtScoresZero ==
    (pc = "growth" /\ ~etf) =>
        /\ (f.debt_to_equity.t = "num" /\ f.debt_to_equity.v < 0) => DebtPart = 0
        /\ DebtPart = 1 =>
               (f.debt_to_equity.t = "num" /\ f.debt_to_equity.v >= 0
                /\ f.debt_to_equity.v <= 10000)

Fields == {"earnings_growth", "revenue_growth", "roe", "debt_to_equity"}

\* the most one rule can add
RuleMax(field) == IF field = "earnings_growth" THEN 2 ELSE 1

\* C7: for a stock an absent field contributes 0 and scoring never fails:
\* with the four fields absent and no growth keyword in the sector the score
\* is 0; a field that is present adds at most its own rule's points to the
\* score the record has without it; the score is in 0..6, and it is 6 for
\* the scenario's fundamentals.
C7_AbsentFields ==
    /\ (pc = "etf") => ENABLED ScoreGrowth
    /\ (pc = "growth" /\ ~etf) =>
        /\ g_score \in 0..6
        /\ ((\A k \in Fields : f[k] = None) /\ SectorPoints(f.sector) = 0)
               => g_score = 0
        /\ \A k \in Fields :
               LET without == score_growth([f EXCEPT ![k] = None], FALSE)
               IN  /\ g_score - without \in 0..RuleMax(k)
                   /\ f[k] = None => g_score = without
        /\ BestFundamentals => g_score = 6

\* a stock with no fundamentals at all
C7_Witness ==
    pc = "growth" /\ ~etf /\ (\A k \in Fields : f[k] = None)
    /\ f.sector = "" /\ g_score = 0

-----------------------------------------------------------------------------
(* Properties of the indicators and of score_panic (SpecIndicators) *)

Scored == pc \in {"panic", "streak", "row"}
Scanned == pc \in {"streak", "row"}

\* the closes that count: those left by dropna
Clean == dropna(closes)

\* what score_panic added for the down streak: the score less the drawdown part
StreakPart == p_score - DrawdownPoints(compute_drawdown_pct(closes))

\* what score_panic added for the drawdown: the score less the streak part
DrawdownPart == p_score - StreakPoints(streak, PANIC_STREAK_DAYS)

\* C2 as stated: the streak contribution is 2 at the threshold, else 1 from
\* max(3, exact half of the threshold), else 0.
C2_ExactHalf ==
    Scored =>
        StreakPart = (IF streak >= PANIC_STREAK_DAYS THEN 2
                      ELSE IF streak >= 3 /\ 2 * streak >= PANIC_STREAK_DAYS THEN 1
                      ELSE 0)

\* C2 amended: the streak contribution is 2 when downStreak >= streakThreshold,
\* otherwise 1 when downStreak >= max(3, floor(streakThreshold / 2)) (3 for a
\* threshold of 7), otherwise 0.
C2_FloorHalf ==
    Scored =>
        StreakPart = (IF streak >= PANIC_STREAK_DAYS THEN 2
                      ELSE IF streak >= 3 /\ 2 * streak + 1 >= PANIC_STREAK_DAYS THEN 1
                      ELSE 0)

\* a streak of 3 under a threshold of 7 scores its point
C2_Witness ==
    Scored /\ PANIC_STREAK_DAYS = 7 /\ streak = 3 /\ StreakPart = 1

\* C3 as stated: the drawdown contribution is 2 when the drawdown reported
\* by score_panic is <= -20, 1 when it is <= -10, else 0; the score is in
\* 0..4; the scenario closes give streak 7, drawdown -25.0 and score 4.
C3_NegativeDrawdown ==
    Scored =>
        /\ DrawdownPart = (IF dd <= 0 - 2000 THEN 2 ELSE IF dd <= 0 - 1000 THEN 1 ELSE 0)
        /\ p_score \in 0..4
        /\ (closes = Scenario /\ PANIC_STREAK_DAYS = 7)
               => (streak = 7 /\ dd = 0 - 2500 /\ p_score = 4)

\* C3 amended: the drawdown contribution is 2 when the last close is at
\* least 20% below the peak (the allocator's drawdown, a percentage >= 0, is
\* >= 20), 1 when it is at least 10% below, else 0; the score is in 0..4; the
\* scenario closes give streak 7, drawdown 25.0 and score 4.
C3_DrawdownPoints ==
    Scored =>
        /\ DrawdownPart =
             (IF Clean = <<>> THEN 0
              ELSE LET peak == SeqMax(Clean)
                       last == Clean[Len(Clean)]
                   IN  IF peak <= 0 THEN 0
                       ELSE IF (peak - last) * 100 >= 20 * peak THEN 2
                       ELSE IF (peak - last) * 100 >= 10 * peak THEN 1
                       ELSE 0)
        /\ p_score \in 0..4
        /\ (closes = Scenario /\ PANIC_STREAK_DAYS = 7)
               => (streak = 7 /\ dd = 2500 /\ p_score = 4)

\* the scenario closes scored with a threshold of 7
C3_Witness ==
    Scored /\ closes = Scenario /\ PANIC_STREAK_DAYS = 7
    /\ streak = 7 /\ dd = 2500 /\ p_score = 4

\* the window main takes for drawdown and run-up, when it computes them
Computes == BundleCloses(closes).ok /\ Len(Clean) >= MinHistory
Win == Window(Clean, DRAWDOWN_LOOKBACK)
AllPositive(c) == \A i \in 1..Len(c) : c[i] > 0

\* C4 as stated: every drawdown is <= 0 and the run-up is >= 0 on positive
\* closes, and the result is 0 when the rolling high (low) is <= 0.
C4_AllDrawdownsNegative ==
    (pc = "row") =>
        /\ (Clean # <<>> /\ AllPositive(Clean)) => dd <= 0
        /\ (Clean # <<>> /\ SeqMax(Clean) <= 0) => dd = 0
        /\ (Computes /\ AllPositive(Win)) => (dd_pct.n <= 0 /\ ru_pct.n >= 0)
        /\ (Computes /\ SeqMax(Win) <= 0) => dd_pct.n = 0
        /\ (Computes /\ SeqMin(Win) <= 0) => ru_pct.n = 0

\* C4 amended: the mailer's drawdown is <= 0 and its run-up >= 0 for any
\* non-empty window of positive closes, and each is 0 when the rolling high
\* (resp. low) is exactly 0; the allocator's compute_drawdown_pct reports the
\* fall from the peak as a percentage >= 0, which is 0 when the peak is <= 0.
C4_DrawdownSigns ==
    (pc = "row") =>
        /\ dd >= 0
        /\ (Clean # <<>> /\ SeqMax(Clean) <= 0) => dd = 0
        /\ (Computes /\ AllPositive(Win)) => (dd_pct.n <= 0 /\ ru_pct.n >= 0)
        /\ (Computes /\ SeqMax(Win) = 0) => dd_pct.n = 0
        /\ (Computes /\ SeqMin(Win) = 0) => ru_pct.n = 0

\* a history of positive closes that ends below its high and above its low
C4_Witness ==
    pc = "row" /\ Computes /\ AllPositive(Win)
    /\ dd_pct.n < 0 /\ ru_pct.n > 0 /\ dd > 0

StrictlyDecreasing(c) == \A i \in 1..(Len(c) - 1) : c[i] > c[i + 1]
StrictlyIncreasing(c) == \A i \in 1..(Len(c) - 1) : c[i] < c[i + 1]

\* C8: with fewer than 2 closes both streaks are 0; a strictly decreasing
\* sequence of N >= 2 closes has down streak N - 1 (from compute_down_streak
\* and from compute_streak); a strictly increasing one has up streak N - 1.
C8_Streaks ==
    Scanned =>
        /\ Len(Clean) < 2 => (streak = 0 /\ down = 0 /\ up = 0)
        /\ (Len(Clean) >= 2 /\ StrictlyDecreasing(Clean))
               => (streak = Len(Clean) - 1 /\ down = Len(Clean) - 1)
        /\ (Len(Clean) >= 2 /\ StrictlyIncreasing(Clean))
               => up = Len(Clean) - 1

\* the whole ladder, falling: eleven down days
C8_Witness ==
    Scanned /\ Len(Clean) = Len(Levels) /\ StrictlyDecreasing(Clean)
    /\ streak = Len(Levels) - 1 /\ down = Len(Levels) - 1

\* number of steps of the longest run at the end of c in which every close
\* is above (dir = 1) or below (dir = -1) the close before it
TrailingRun(c, dir) ==
    LET n == Len(c)
        runs == {k \in 0..(IF n = 0 THEN 0 ELSE n - 1) :
                    \A j \in 1..k : dir * (c[n - j + 1] - c[n - j]) > 0}
    IN  CHOOSE k \in runs : \A m \in runs : m <= k

\* C9: compute_streak returns at most one non-zero count; the scan stops at
\* the first step against the direction counted and at the first pair of equal
\* closes, so the counts are the trailing rising and falling runs and are
\* both 0 when the last two closes are equal; its down streak equals
\* compute_down_streak of the same sequence.
C9_StreakPair ==
    Scanned =>
        /\ up = 0 \/ down = 0
        /\ up = TrailingRun(Clean, 1)
        /\ down = TrailingRun(Clean, 0 - 1)
        /\ (Len(Clean) >= 2 /\ Clean[Len(Clean)] = Clean[Len(Clean) - 1])
               => (up = 0 /\ down = 0)
        /\ down = streak

\* a falling run that follows a rising step
C9_Witness ==
    Scanned /\ down >= 2 /\ up = 0 /\ streak = down
    /\ Len(Clean) >= down + 2
    /\ Clean[Len(Clean) - down] > Clean[Len(Clean) - down - 1]

Msgs == {alert_msgs[i] : i \in 1..Len(alert_msgs)}

\* the thresholds as magnitudes: main compares with abs() of the settings
drawdownThreshold == Abs(ALERT_DRAWDOWN_PCT)
runupThreshold == Abs(ALERT_RUNUP_PCT)

\* C10: the alert messages of a symbol are exactly those of the rules that
\* match, each rule on its own: "Down N days" iff down streak >= streak
\* threshold, "Up N days" iff up streak >= threshold, "Drawdown X%" iff trend
\* DOWN and drawdown <= -drawdown threshold, "Run-up X%" iff trend UP and
\* run-up >= run-up threshold; down streak 8, threshold 7, trend DOWN,
\* drawdown -25, drawdown threshold 8 give {"Down 8 days", "Drawdown -25.0%"}.
C10_AlertSet ==
    (pc = "row") =>
        LET downMsg == "Down " \o ToString(down_s) \o " days"
            upMsg   == "Up " \o ToString(up_s) \o " days"
            ddMsg   == "Drawdown " \o FmtPct1(dd_pct) \o "%"
            ruMsg   == "Run-up " \o FmtPct1(ru_pct) \o "%"
        IN  /\ Msgs \subseteq {downMsg, upMsg, ddMsg, ruMsg}
            /\ Cardinality(Msgs) = Len(alert_msgs)
            /\ (downMsg \in Msgs) <=> (down_s >= ALERT_STREAK_DAYS)
            /\ (upMsg \in Msgs) <=> (up_s >= ALERT_STREAK_DAYS)
            /\ (ddMsg \in Msgs) <=>
                   (trend = "DOWN" /\ dd_pct.n <= (0 - drawdownThreshold) * dd_pct.d)
            /\ (ruMsg \in Msgs) <=>
                   (trend = "UP" /\ ru_pct.n >= runupThreshold * ru_pct.d)
            /\ (down_s = 8 /\ ALERT_STREAK_DAYS = 7 /\ trend = "DOWN"
                  /\ dd_pct.n = (0 - 25) * dd_pct.d /\ drawdownThreshold = 8)
                   => Msgs = {"Down 8 days", "Drawdown -25.0%"}

\* the scenario of the alert rules
C10_Witness ==
    pc = "row" /\ down_s = 8 /\ ALERT_STREAK_DAYS = 7 /\ trend = "DOWN"
    /\ dd_pct.n = (0 - 25) * dd_pct.d /\ drawdownThreshold = 8
    /\ alert_msgs = <<"Down 8 days", "Drawdown -25.0%">>

-----------------------------------------------------------------------------
(* Properties of the alert table (SpecMailer) *)

\* build_email has run
Built == pc \in {"m_email", "m_done", "m_send_raised"}

\* some alert rule matches the indicators of the row
HasAlert(r) ==
    \/ r.DownStreak >= ALERT_STREAK_DAYS
    \/ r.UpStreak >= ALERT_STREAK_DAYS
    \/ r.Trend = "DOWN" /\ RatLe(r.dd_pct, 0 - drawdownThreshold)
    \/ r.Trend = "UP" /\ RatGe(r.ru_pct, runupThreshold)

Flagged == {i \in 1..Len(rows) : HasAlert(rows[i])}

\* the table holds exactly the flagged symbols, each once
SameSymbols ==
    /\ {alerts_view[i].Symbol : i \in 1..Len(alerts_view)}
         = {rows[i].Symbol : i \in Flagged}
    /\ Len(alerts_view) = Cardinality(Flagged)

\* severity from the drawdown of the indicators
SeverityExact(r) ==
    (IF r.Trend = "DOWN" THEN 2 ELSE 0)
    + (IF RatLe(r.dd_pct, 0 - drawdownThreshold) THEN 2 ELSE 0)
    + (IF r.DownStreak >= ALERT_STREAK_DAYS THEN 1 ELSE 0)

\* severity from the drawdown shown in the table, two decimals, in hundredths
SeverityShown(r) ==
    (IF r.Trend = "DOWN" THEN 2 ELSE 0)
    + (IF r.Drawdown <= (0 - drawdownThreshold) * 100 THEN 2 ELSE 0)
    + (IF r.DownStreak >= ALERT_STREAK_DAYS THEN 1 ELSE 0)

\* a / b < c / d for two rationals with positive denominators
RatLt(x, y) == x.n * y.d < y.n * x.d

\* C11 as stated: the alert table holds exactly the symbols with a non-empty
\* alert set; severity is 2 for trend DOWN plus 2 for drawdownPct <=
\* -drawdownThreshold plus 1 for downStreak >= streakThreshold, and the rows
\* are in descending severity, then ascending drawdownPct, then descending
\* down streak.
C11_SeverityFromIndicators ==
    Built =>
        /\ SameSymbols
        /\ \A i \in 1..Len(alerts_view), j \in 1..Len(alerts_view) :
              i < j =>
                LET a == alerts_view[i]
                    b == alerts_view[j]
                IN  \/ SeverityExact(a) > SeverityExact(b)
                    \/ /\ SeverityExact(a) = SeverityExact(b)
                       /\ \/ RatLt(a.dd_pct, b.dd_pct)
                          \/ /\ ~RatLt(b.dd_pct, a.dd_pct)
                             /\ a.DownStreak >= b.DownStreak

\* C11 amended: the alert table holds exactly the symbols with a non-empty
\* alert set, whatever their severity; severity is 2 for trend DOWN plus 2
\* when the drawdown shown in the table (rounded to two decimals) is <=
\* -drawdownThreshold plus 1 for downStreak >= streakThreshold, 5 when all
\* three hold; the rows are in descending severity, then ascending shown
\* drawdown, then descending down streak.
C11_SeverityFromTable ==
    Built =>
        /\ SameSymbols
        /\ \A i \in 1..Len(alerts_view), j \in 1..Len(alerts_view) :
              i < j =>
                LET a == alerts_view[i]
                    b == alerts_view[j]
                IN  \/ SeverityShown(a) > SeverityShown(b)
                    \/ /\ SeverityShown(a) = SeverityShown(b)
                       /\ \/ a.Drawdown < b.Drawdown
                          \/ /\ a.Drawdown = b.Drawdown
                             /\ a.DownStreak >= b.DownStreak
        /\ \A i \in 1..Len(alerts_view) :
              LET a == alerts_view[i]
              IN  (a.Trend = "DOWN" /\ a.Drawdown = 0 - 2500 /\ a.DownStreak = 8)
                      => SeverityShown(a) = 5

\* three holdings: one quiet, one rising with alerts and severity 0, one
\* falling with severity 5; the table lists the falling one first
C11_Witness ==
    /\ Built
    /\ Len(rows) = 3 /\ Len(alerts_view) = 2
    /\ SeverityShown(alerts_view[1]) = 5 /\ alerts_view[1].DownStreak = 8
    /\ SeverityShown(alerts_view[2]) = 0 /\ alerts_view[2].UpStreak = 8
    /\ alerts_view[1].Symbol = rows[3].Symbol

-----------------------------------------------------------------------------
(* Minimum history of the mailer's indicators (SpecIndicators) *)

\* drawdown and run-up of the last close against the high and low of c
AgainstHigh(c) == safe_pct(c[Len(c)] - SeqMax(c), SeqMax(c))
AgainstLow(c) == safe_pct(c[Len(c)] - SeqMin(c), SeqMin(c))

\* C13 as stated: each indicator of a symbol has its own minimum history:
\* the streaks are those of the backward scan whenever the series has at
\* least 2 closes, drawdown and run-up use the whole series when it is
\* shorter than the lookback, and the trend is NA exactly when the series has
\* fewer than 15 closes.
C13_OwnMinimumPerIndicator ==
    (pc = "row") =>
        /\ Len(Clean) >= 2 =>
               (up_s = TrailingRun(Clean, 1) /\ down_s = TrailingRun(Clean, 0 - 1))
        /\ (Len(Clean) >= 2 /\ Len(Clean) < DRAWDOWN_LOOKBACK) =>
               (dd_pct = AgainstHigh(Clean) /\ ru_pct = AgainstLow(Clean))
        /\ (trend = "NA") <=> (Len(Clean) < 15)

\* C13 amended: the mailer computes the indicators of a symbol together, and
\* only from 15 closes on: with fewer, the streaks are 0, the trend is NA,
\* drawdown and run-up are 0 and there is no alert; with at least 15 the
\* streaks are those of the backward scan, drawdown and run-up use the last
\* lookback closes, or the whole series when it is shorter than the lookback,
\* and the trend is UP, DOWN or FLAT.  compute_streak itself returns the counts
\* of the scan for any series of at least 2 closes.
C13_SharedMinimum ==
    (pc = "row") =>
        /\ Len(Clean) < 15 =>
               /\ up_s = 0 /\ down_s = 0 /\ trend = "NA"
               /\ dd_pct = Zero /\ ru_pct = Zero /\ alert_msgs = <<>>
        /\ Len(Clean) >= 15 =>
               /\ up_s = TrailingRun(Clean, 1) /\ down_s = TrailingRun(Clean, 0 - 1)
               /\ trend \in {"UP", "DOWN", "FLAT"} /\ trend = Trend(Clean)
               /\ Len(Clean) < DRAWDOWN_LOOKBACK =>
                      (dd_pct = AgainstHigh(Clean) /\ ru_pct = AgainstLow(Clean))
               /\ Len(Clean) >= DRAWDOWN_LOOKBACK =>
                      /\ dd_pct = AgainstHigh(LastK(Clean, DRAWDOWN_LOOKBACK))
                      /\ ru_pct = AgainstLow(LastK(Clean, DRAWDOWN_LOOKBACK))
        /\ (trend = "NA") <=> (Len(Clean) < 15)
        /\ Len(Clean) >= 2 =>
               (up = TrailingRun(Clean, 1) /\ down = TrailingRun(Clean, 0 - 1))

\* fourteen closes ending in a falling run: compute_streak counts the run,
\* the row of the symbol has no streak, no drawdown and no trend
C13_Witness ==
    /\ pc = "row" /\ Len(Clean) = 14
    /\ down >= 3 /\ AgainstHigh(Clean).n < 0
    /\ down_s = 0 /\ dd_pct = Zero /\ trend = "NA" /\ alert_msgs = <<>>

-----------------------------------------------------------------------------
(* Retrieval failures (SpecMailer) *)

\* C12: a price request that raises for one symbol never ends the run: the
\* symbol is left out of scoring and the run goes on with the other symbols.
\* In the mailer run this says that the loop is never left by the exception
\* of a history request.
C12_FetchFailureNeverAborts ==
    pc # "m_fetch_raised"

-----------------------------------------------------------------------------
(* The allocator's loop over the universe (SpecAllocator) *)

InLoopBody ==
    pc \in {"a_fetch", "a_fund", "a_etf", "a_panic", "a_growth", "a_classify", "a_append"}

LoopOver == pc \in {"a_done", "a_send_raised"} \/ (pc = "a_loop" /\ handled = Len(symbols))

RowSymbols == {rows[i].Symbol : i \in 1..Len(rows)}
UnresolvedSymbols == {unresolved[i] : i \in 1..Len(unresolved)}
HandledSymbols == {symbols[i] : i \in 1..handled}

\* every symbol handled so far is in exactly one of the two collections, once
Accounted ==
    /\ handled \in 0..Len(symbols)
    /\ Len(rows) + Len(unresolved) = handled
    /\ Cardinality(HandledSymbols) = handled
    /\ RowSymbols \cup UnresolvedSymbols = HandledSymbols
    /\ RowSymbols \cap UnresolvedSymbols = {}
    /\ Cardinality(RowSymbols) = Len(rows)
    /\ Cardinality(UnresolvedSymbols) = Len(unresolved)
    /\ LoopOver => handled = Len(symbols)
    /\ InLoopBody =>
           /\ handled < Len(symbols)
           /\ sym = symbols[handled + 1]
           /\ yahoo # ""

\* what a row is made from was computed for its symbol, from a usable history
Computed ==
    /\ pc \in {"a_fund", "a_etf", "a_panic", "a_growth", "a_classify", "a_append"} =>
           Len(dropna(closes)) >= 15
    /\ pc \in {"a_etf", "a_panic", "a_growth", "a_classify", "a_append"} =>
           f = get_fundamentals(info)
    /\ pc \in {"a_panic", "a_growth", "a_classify", "a_append"} =>
           etf = is_etf_like(sym, f)
    /\ pc \in {"a_growth", "a_classify", "a_append"} =>
           /\ p_score = score_panic(closes, PANIC_STREAK_DAYS).score
           /\ streak = compute_down_streak(closes)
    /\ pc \in {"a_classify", "a_append"} => g_score = score_growth(f, etf)
    /\ pc = "a_append" => <<action, alloc>> = classify(p_score, g_score)
    /\ \A i \in 1..Len(rows) :
           <<rows[i].Action, rows[i].Allocation>> = classify(rows[i].Panic, rows[i].Growth)

\* the steps of the loop body come in the order history, fundamentals, fund
\* test, panic score, growth score, classification, row; the unresolved list
\* grows only where a ticker or its history is missing
InOrder ==
    /\ (pc' = "a_fetch" /\ pc # "a_fetch") => (pc = "a_loop" /\ yahoo' # "")
    /\ (pc' = "a_fund" /\ pc # "a_fund") => pc = "a_fetch"
    /\ (pc' = "a_etf" /\ pc # "a_etf") => pc = "a_fund"
    /\ (pc' = "a_panic" /\ pc # "a_panic") => pc = "a_etf"
    /\ (pc' = "a_growth" /\ pc # "a_growth") => pc = "a_panic"
    /\ (pc' = "a_classify" /\ pc # "a_classify") => pc = "a_growth"
    /\ (pc' = "a_append" /\ pc # "a_append") => pc = "a_classify"
    /\ rows' # rows =>
           /\ pc = "a_append"
           /\ Len(rows') = Len(rows) + 1
           /\ rows'[Len(rows')].Symbol = symbols[handled + 1]
           /\ handled' = handled + 1
           /\ unresolved' = unresolved
    /\ unresolved' # unresolved =>
           /\ \/ pc = "a_loop" /\ yahoo' = ""
              \/ pc = "a_fetch"
           /\ unresolved' = Append(unresolved, symbols[handled + 1])
           /\ handled' = handled + 1
           /\ rows' = rows
    /\ handled' # handled => (rows' # rows \/ unresolved' # unresolved)

\* C14: in the allocator run every symbol handled so far is in exactly one of
\* rows and unresolved, once, so rows + unresolved = symbols handled at every
\* point and all symbols are accounted for after the loop; a symbol goes to
\* unresolved when no candidate ticker answers with a usable history or when
\* the second fetch fails; a row is created only after history, fundamentals,
\* panic score, growth score and classification were computed, in that order.
C14_LoopAccounting ==
    [](Accounted /\ Computed) /\ [][InOrder]_vars

\* a finished run over two symbols: the first scored, the second resolved but
\* left without history by the second fetch
C14_Witness ==
    /\ pc = "a_done" /\ Len(symbols) = 2 /\ handled = 2
    /\ Len(rows) = 1 /\ rows[1].Symbol = symbols[1]
    /\ unresolved = <<symbols[2]>> /\ yahoo # ""

-----------------------------------------------------------------------------
(* The allocator's email (FairAllocator) *)

NoDataSubject == "Opportunity Allocator (No Data)"
OpportunitiesSubject == "Investment Opportunities (Universe)"

\* C15: every allocator run whose universe was read and whose SMTP delivery
\* does not raise sends exactly one email, and only after all symbols were
\* handled: the No Data email iff no symbol produced a scored row, otherwise
\* the opportunities email; never both and never none.
C15_ExactlyOneEmail ==
    /\ [](Len(sent) <= 1)
    /\ [](sent # <<>> =>
             /\ pc = "a_done"
             /\ handled = Len(symbols)
             /\ sent[1] \in {NoDataSubject, OpportunitiesSubject}
             /\ (sent[1] = NoDataSubject) <=> (rows = <<>>))
    /\ [](pc = "a_done" => Len(sent) = 1)
    /\ [](pc = "a_send_raised" => sent = <<>>)
    /\ [](pc = "a_loop" => <>(pc \in {"a_done", "a_send_raised"}))

\* a finished run in which neither of two symbols had data
C15_Witness ==
    /\ pc = "a_done" /\ Len(symbols) = 2 /\ rows = <<>> /\ Len(unresolved) = 2
    /\ sent = <<NoDataSubject>>

=============================================================================
